---- MODULE Spec2Model ----
(***************************************************************************)
(* Model of src/src/doubly_linked_deque.rs: List<T>, a doubly-linked deque *)
(* whose nodes are Rc<RefCell<Node<T>>>.                                   *)
(*                                                                         *)
(* The heap is an arena of MaxNodes slots.  Each slot carries the node's   *)
(* fields (elem, next, prev), the strong count of its Rc (rc; 0 = the slot *)
(* is free) and the borrow flag of its RefCell (borrow; 0 = unused,        *)
(* n > 0 = n shared borrows, -1 = one exclusive borrow).                   *)
(*                                                                         *)
(* A view (Ref / RefMut) returned by a peek is either live (it still       *)
(* borrows the list, so the compiler admits only &self methods next to a   *)
(* live Ref and nothing next to a live RefMut), released (dropped), or     *)
(* leaked (std::mem::forget: the list is usable again, the RefCell's flag  *)
(* stays set for ever).                                                    *)
(*                                                                         *)
(* Two more lists of the crate are modelled next to it, each with its own  *)
(* variables and its own specification: the persistent stack of            *)
(* src/src/persistent_stack.rs (ps_ variables, SpecPersist) and the boxed  *)
(* stack with its three iterators of src/src/generic_and_iterators.rs      *)
(* (gs_ variables, SpecStack).                                             *)
(***************************************************************************)
EXTENDS Integers, Sequences, FiniteSets, TLC

\* ---------------------------------------------------------------- bounds
MaxNodes == 3
MaxVal == 2
MaxViews == 2
MaxLeaks == 2
MaxViewLen == 2
MaxShared == 2
MaxLists == 3
MaxStack == 3
MaxExtra == 2

\* Option::None of a Link<T>; slots are numbered from 1.
NULL == 0

Slots == 1..MaxNodes
Values == 1..MaxVal
Links == Slots \cup {NULL}

\* Option<T> as returned by pop and seen through a peek.
None == << >>
Some(v) == << v >>

VARIABLES
    head, tail,          \* List.head, List.tail
    elem, next, prev,    \* Node.elem, Node.next, Node.prev, per slot
    rc,                  \* strong count of the Rc of each slot
    borrow,              \* borrow flag of the RefCell of each slot
    views,               \* live Ref views per slot
    mview,               \* slot of the live RefMut view, or NULL
    pc,                  \* "live" | "panicked" | "dropped" | "drop_panicked"
    lastOp,              \* the operation that produced this state
    ret,                 \* its result (ghost)
    pending,             \* ghost: values pushed and not yet popped, per end
    expect,              \* ghost: the result pending says the operation has
    rule,                \* ghost: "lifo" | "fifo" | "empty", how expect was found
    nleaks,              \* ghost: views leaked so far
    npops                \* ghost: successful pops of the last drop loop

\* persistent_stack.rs: the nodes, and the List values that are alive.
VARIABLES
    ps_live,             \* handles of the List values in scope
    ps_head,             \* List.head of each handle
    ps_elem, ps_next,    \* Node.elem, Node.next, per slot
    ps_rc,               \* strong count of the Rc of each slot
    ps_op,               \* ghost: the last call, its receiver and its result
    ps_ret               \* ghost: what head() returned

\* generic_and_iterators.rs: one List and the iterator made from it.
VARIABLES
    gs_head,             \* List.head
    gs_elem, gs_next,    \* Node.elem, Node.next, per slot
    gs_used,             \* the slot holds a live Box<Node>
    gs_mode,             \* "list" | "iter" | "iter_mut" | "into_iter" | "gone"
    gs_cur,              \* Iter.next / IterMut.next
    gs_last,             \* the node whose elem the last &mut T refers to
    gs_op,               \* ghost: the last call
    gs_ret,              \* ghost: its result
    gs_snap,             \* ghost: what repeated pop would have returned
    gs_calls,            \* ghost: calls of next() on this iterator
    gs_yield             \* ghost: what next() has yielded so far

heapVars == << head, tail, elem, next, prev, rc, borrow >>
dequeVars == << head, tail, elem, next, prev, rc, borrow, views, mview, pc,
                lastOp, ret, pending, expect, rule, nleaks, npops >>
psVars == << ps_live, ps_head, ps_elem, ps_next, ps_rc, ps_op, ps_ret >>
gsVars == << gs_head, gs_elem, gs_next, gs_used, gs_mode, gs_cur, gs_last,
             gs_op, gs_ret, gs_snap, gs_calls, gs_yield >>
vars == << dequeVars, psVars, gsVars >>

\* The heap as one value, so that a method is a function from heap to heap.
Heap ==
    [head |-> head, tail |-> tail, elem |-> elem, next |-> next,
     prev |-> prev, rc |-> rc, borrow |-> borrow]

SetHeap(h) ==
    /\ head' = h.head
    /\ tail' = h.tail
    /\ elem' = h.elem
    /\ next' = h.next
    /\ prev' = h.prev
    /\ rc' = h.rc
    /\ borrow' = h.borrow

\* List::new
EmptyHeap ==
    [head |-> NULL, tail |-> NULL,
     elem |-> [n \in Slots |-> NULL],
     next |-> [n \in Slots |-> NULL],
     prev |-> [n \in Slots |-> NULL],
     rc |-> [n \in Slots |-> 0],
     borrow |-> [n \in Slots |-> 0]]

\* ------------------------------------------------------------ Rc, RefCell

\* Drop of one Rc<RefCell<Node>>: the strong count goes down by one; at zero
\* the node is freed and its fields are dropped in declaration order (elem,
\* next, prev), which drops the Rc's they hold.
RECURSIVE DropRc(_, _)
DropRc(h, n) ==
    IF n = NULL \/ h.rc[n] = 0 THEN h
    ELSE IF h.rc[n] > 1 THEN [h EXCEPT !.rc[n] = @ - 1]
    ELSE LET nx == h.next[n]
             pv == h.prev[n]
             h1 == [h EXCEPT !.rc[n] = 0, !.elem[n] = NULL, !.next[n] = NULL,
                             !.prev[n] = NULL, !.borrow[n] = 0]
         IN DropRc(DropRc(h1, nx), pv)
\* Mutant: a clone that is never dropped is made next to the one stored.
CloneRcTwice(h, n) == [h EXCEPT !.rc[n] = @ + 2]

\* Rc::clone
CloneRc(h, n) == [h EXCEPT !.rc[n] = @ + 1]

\* Mutant: borrow_mut checked like borrow, shared views do not stop it.
CanBorrowMutLikeBorrow(h, n) == h.borrow[n] >= 0

\* RefCell::borrow_mut succeeds only on an unused cell.
CanBorrowMut(h, n) == h.borrow[n] = 0
\* Mutant: borrow checked like borrow_mut, a shared view stops the next one.
CanBorrowLikeBorrowMut(h, n) == h.borrow[n] = 0

\* RefCell::borrow succeeds unless the cell is exclusively borrowed.
CanBorrow(h, n) == h.borrow[n] >= 0

\* Node::new: a fresh allocation owned by one local Rc.
HasFree(h) == \E n \in Slots : h.rc[n] = 0

FreshSlot(h) == CHOOSE n \in Slots : h.rc[n] = 0 /\ \A m \in Slots : m < n => h.rc[m] # 0

NodeNew(h, n, v) ==
    [h EXCEPT !.elem[n] = v, !.next[n] = NULL, !.prev[n] = NULL,
              !.rc[n] = 1, !.borrow[n] = 0]

\* Outcome of a method: the heap it leaves, its return value, and whether it
\* panicked (the heap is then the one left after unwinding dropped the locals).
Done(h, r) == [h |-> h, ret |-> r, panic |-> FALSE, node |-> NULL]
Panic(h) == [h |-> h, ret |-> None, panic |-> TRUE, node |-> NULL]

\* Mutant: unwrap() in place of map(): None panics.
MapNoneUnwrap(h) == Panic(h)

\* Option::map on None: nothing is done and None is returned.
MapNone(h) == Done(h, None)

\* Outcome of a peek that handed out a view of node n.
View(h, n) == [h |-> h, ret |-> Some(h.elem[n]), panic |-> FALSE, node |-> n]


\* `place = value` on an initialised place: the new value is written and the
\* value that was there is dropped.
AssignNext(h, n, m) == DropRc([h EXCEPT !.next[n] = m], h.next[n])
\* Mutant: the back edge is never written.
AssignPrevOmitted(h, n, m) == h

AssignPrev(h, n, m) == DropRc([h EXCEPT !.prev[n] = m], h.prev[n])
AssignHead(h, m) == DropRc([h EXCEPT !.head = m], h.head)
\* Mutant: the tail anchor is never written.
AssignTailOmitted(h, m) == h

AssignTail(h, m) == DropRc([h EXCEPT !.tail = m], h.tail)

\* Option::take on a field: the field becomes None, the caller owns the value.
TakeHead(h) == [h EXCEPT !.head = NULL]
\* Mutant: the tail anchor is read but left in place.
TakeTailKept(h) == h

TakeTail(h) == [h EXCEPT !.tail = NULL]
\* Mutant: the next edge is read but left in place.
TakeNextKept(h, n) == h

TakeNext(h, n) == [h EXCEPT !.next[n] = NULL]
\* Mutant: the prev edge is read but left in place.
TakePrevKept(h, n) == h
\* Mutant: the node is cut off on both sides.
TakePrevAndNext(h, n) == [h EXCEPT !.prev[n] = NULL, !.next[n] = NULL]

TakePrev(h, n) == [h EXCEPT !.prev[n] = NULL]

\* A granted borrow_mut / borrow sets the flag; the RefMut temporary of a
\* match scrutinee is given back when the match ends.
HoldMut(h, n) == [h EXCEPT !.borrow[n] = -1]
HoldRef(h, n) == [h EXCEPT !.borrow[n] = @ + 1]
\* Mutant: the RefMut temporary is forgotten, its borrow is never given back.
ReleaseMutKept(h, n) == h

ReleaseMut(h, n) == [h EXCEPT !.borrow[n] = 0]

\* Mutant: the elem handed back is the one of the new head node.
ReclaimNewHead(h, n) ==
    IF h.rc[n] = 1
    THEN Done(DropRc(h, n), Some(IF h.head # NULL THEN h.elem[h.head] ELSE h.elem[n]))
    ELSE Panic(DropRc(h, n))
\* Mutant: the elem is copied out and the Rc is forgotten, not unwrapped.
ReclaimForget(h, n) == Done(h, Some(h.elem[n]))

\* Rc::try_unwrap(node).ok().unwrap().into_inner().elem: with a strong count
\* of one the node is moved out of the Rc, its elem is returned and the rest
\* of it is dropped; otherwise ok() drops the Rc and unwrap() panics.
Reclaim(h, n) ==
    IF h.rc[n] = 1 THEN Done(DropRc(h, n), Some(h.elem[n]))
    ELSE Panic(DropRc(h, n))

\* --------------------------------------------------------------- methods
\* Mutant: push_front also writes the tail anchor on a non-empty list.
push_front_sets_tail(h, v) ==
    LET new_head == FreshSlot(h)
        h0 == NodeNew(h, new_head, v)
        curr_head == h0.head
        h1 == TakeHead(h0)
    IN IF curr_head # NULL
       THEN LET h2 == CloneRc(h1, new_head)
                h3 == AssignPrev(h2, curr_head, new_head)
                h4 == AssignNext(h3, new_head, curr_head)
                h5 == AssignTail(CloneRc(h4, new_head), new_head)
            IN Done(AssignHead(h5, new_head), None)
       ELSE LET h2 == AssignTail(CloneRc(h1, new_head), new_head)
            IN Done(AssignHead(h2, new_head), None)

\* List::push_front.  Each borrow_mut() is a temporary RefMut, given back at
\* the end of its statement; the right-hand side is evaluated before it.
push_front(h, v) ==
    LET new_head == FreshSlot(h)
        h0 == NodeNew(h, new_head, v)
        curr_head == h0.head
        h1 == TakeHead(h0)
    IN IF curr_head # NULL
       THEN LET h2 == CloneRc(h1, new_head)
            IN IF ~CanBorrowMut(h2, curr_head)
               THEN Panic(DropRc(DropRc(DropRc(h2, new_head), curr_head), new_head))
               ELSE LET h3 == ReleaseMut(AssignPrev(HoldMut(h2, curr_head),
                                                    curr_head, new_head), curr_head)
                    IN IF ~CanBorrowMut(h3, new_head)
                       THEN Panic(DropRc(DropRc(h3, curr_head), new_head))
                       ELSE LET h4 == ReleaseMut(AssignNext(HoldMut(h3, new_head),
                                                            new_head, curr_head), new_head)
                            IN Done(AssignHead(h4, new_head), None)
       ELSE LET h2 == AssignTail(CloneRc(h1, new_head), new_head)
            IN Done(AssignHead(h2, new_head), None)
\* Mutant: push_back written as a copy of push_front.
push_back_at_head(h, v) == push_front(h, v)

\* List::push_back
push_back(h, v) ==
    LET new_tail == FreshSlot(h)
        h0 == NodeNew(h, new_tail, v)
        curr_tail == h0.tail
        h1 == TakeTail(h0)
    IN IF curr_tail # NULL
       THEN LET h2 == CloneRc(h1, new_tail)
            IN IF ~CanBorrowMut(h2, curr_tail)
               THEN Panic(DropRc(DropRc(DropRc(h2, new_tail), curr_tail), new_tail))
               ELSE LET h3 == ReleaseMut(AssignNext(HoldMut(h2, curr_tail),
                                                    curr_tail, new_tail), curr_tail)
                    IN IF ~CanBorrowMut(h3, new_tail)
                       THEN Panic(DropRc(DropRc(h3, curr_tail), new_tail))
                       ELSE LET h4 == ReleaseMut(AssignPrev(HoldMut(h3, new_tail),
                                                            new_tail, curr_tail), new_tail)
                            IN Done(AssignTail(h4, new_tail), None)
       ELSE LET h2 == AssignHead(CloneRc(h1, new_tail), new_tail)
            IN Done(AssignTail(h2, new_tail), None)

\* The closure of pop_front up to Rc::try_unwrap: the head node n is taken
\* off the list (h.head # NULL) and every borrow is given back.
Unlinked(h, n) == [h |-> h, ret |-> None, panic |-> FALSE, node |-> n]

unlink_front(h) ==
    LET curr_head == h.head
        h1 == TakeHead(h)
    IN IF ~CanBorrowMut(h1, curr_head) THEN Panic(DropRc(h1, curr_head))
       ELSE LET new_head == h1.next[curr_head]
                h2 == TakeNext(HoldMut(h1, curr_head), curr_head)
            IN IF new_head # NULL
               THEN IF ~CanBorrowMut(h2, new_head)
                    THEN Panic(DropRc(ReleaseMut(DropRc(h2, new_head), curr_head),
                                      curr_head))
                    ELSE LET old == h2.prev[new_head]
                             h3 == ReleaseMut(DropRc(TakePrev(HoldMut(h2, new_head),
                                                              new_head), old), new_head)
                             h4 == AssignHead(h3, new_head)
                         IN Unlinked(ReleaseMut(h4, curr_head), curr_head)
               ELSE LET old == h2.tail
                        h3 == DropRc(TakeTail(h2), old)
                    IN Unlinked(ReleaseMut(h3, curr_head), curr_head)

\* List::pop_front
pop_front(h) ==
    IF h.head = NULL THEN MapNone(h)
    ELSE LET u == unlink_front(h)
         IN IF u.panic THEN u ELSE Reclaim(u.h, u.node)

\* Mutant: pop_back written as a copy of pop_front.
pop_back_at_head(h) == pop_front(h)

\* The closure of pop_back up to Rc::try_unwrap (h.tail # NULL).
unlink_back(h) ==
    LET curr_tail == h.tail
        h1 == TakeTail(h)
    IN IF ~CanBorrowMut(h1, curr_tail) THEN Panic(DropRc(h1, curr_tail))
       ELSE LET new_tail == h1.prev[curr_tail]
                h2 == TakePrev(HoldMut(h1, curr_tail), curr_tail)
            IN IF new_tail # NULL
               THEN IF ~CanBorrowMut(h2, new_tail)
                    THEN Panic(DropRc(ReleaseMut(DropRc(h2, new_tail), curr_tail),
                                      curr_tail))
                    ELSE LET old == h2.next[new_tail]
                             h3 == ReleaseMut(DropRc(TakeNext(HoldMut(h2, new_tail),
                                                              new_tail), old), new_tail)
                             h4 == AssignTail(h3, new_tail)
                         IN Unlinked(ReleaseMut(h4, curr_tail), curr_tail)
               ELSE LET old == h2.head
                        h3 == DropRc(TakeHead(h2), old)
                    IN Unlinked(ReleaseMut(h3, curr_tail), curr_tail)

\* List::pop_back
pop_back(h) ==
    IF h.tail = NULL THEN MapNone(h)
    ELSE LET u == unlink_back(h)
         IN IF u.panic THEN u ELSE Reclaim(u.h, u.node)

\* List::peek_front: a shared borrow of the head node, mapped to its elem.
peek_front(h) ==
    IF h.head = NULL THEN MapNone(h)
    ELSE IF ~CanBorrow(h, h.head) THEN Panic(h)
    ELSE View(HoldRef(h, h.head), h.head)

\* List::peek_front_mut: an exclusive borrow of the head node.
peek_front_mut(h) ==
    IF h.head = NULL THEN MapNone(h)
    ELSE IF ~CanBorrowMut(h, h.head) THEN Panic(h)
    ELSE View(HoldMut(h, h.head), h.head)

\* Mutant: peek_back written as a copy of peek_front, still on self.head.
peek_back_at_head(h) == peek_front(h)

\* List::peek_back
peek_back(h) ==
    IF h.tail = NULL THEN MapNone(h)
    ELSE IF ~CanBorrow(h, h.tail) THEN Panic(h)
    ELSE View(HoldRef(h, h.tail), h.tail)

\* Mutant: peek_back_mut written as a copy of peek_front_mut.
peek_back_mut_at_head(h) == peek_front_mut(h)

\* List::peek_back_mut
peek_back_mut(h) ==
    IF h.tail = NULL THEN MapNone(h)
    ELSE IF ~CanBorrowMut(h, h.tail) THEN Panic(h)
    ELSE View(HoldMut(h, h.tail), h.tail)

\* Mutant: no Drop impl, the fields are dropped and nothing is popped.
drop_loop_absent(h, k) == [h |-> h, panic |-> FALSE, pops |-> k]

\* Drop for List: `while self.pop_front().is_some() {}`, counting the pops
\* that returned a value.
RECURSIVE drop_loop(_, _)
drop_loop(h, k) ==
    LET r == pop_front(h)
    IN IF r.panic THEN [h |-> r.h, panic |-> TRUE, pops |-> k]
       ELSE IF r.ret = None THEN [h |-> r.h, panic |-> FALSE, pops |-> k]
       ELSE drop_loop(r.h, k + 1)

\* After Drop::drop the fields head and tail are dropped in turn.  A panic
\* inside drop while another panic unwinds aborts the process as it is.
drop_list(h, unwinding) ==
    LET r == drop_loop(h, 0)
        glue == DropRc(TakeTail(DropRc(TakeHead(r.h), r.h.head)), r.h.tail)
    IN IF r.panic /\ unwinding THEN r ELSE [r EXCEPT !.h = glue]


\* ----------------------------------------------------------------- ghosts

\* pending holds the values pushed and not yet popped: those pushed at the
\* front and those pushed at the back, each oldest first.  A pop at end e is
\* expected to return the newest value pushed at e and, when there is none,
\* the oldest value pushed at the other end.
Other(e) == IF e = "front" THEN "back" ELSE "front"

Last(q) == q[Len(q)]
ButLast(q) == SubSeq(q, 1, Len(q) - 1)

Expected(p, e) ==
    IF p[e] # << >> THEN Some(Last(p[e]))
    ELSE IF p[Other(e)] # << >> THEN Some(Head(p[Other(e)]))
    ELSE None

Rule(p, e) ==
    IF p[e] # << >> THEN "lifo"
    ELSE IF p[Other(e)] # << >> THEN "fifo"
    ELSE "empty"

Count(p) == Len(p.front) + Len(p.back)

PendPush(p, v, e) == [p EXCEPT ![e] = Append(@, v)]

PendPop(p, e) ==
    IF p[e] # << >> THEN [p EXCEPT ![e] = ButLast(@)]
    ELSE IF p[Other(e)] # << >> THEN [p EXCEPT ![Other(e)] = Tail(@)]
    ELSE p

PendWrite(p, v, e) ==
    IF p[e] # << >> THEN [p EXCEPT ![e] = Append(ButLast(@), v)]
    ELSE IF p[Other(e)] # << >> THEN [p EXCEPT ![Other(e)] = << v >> \o Tail(@)]
    ELSE p

\* ------------------------------------------------------------ the program
\* ------------------------------------------------------- persistent_stack.rs

\* Nodes are Rc<Node<T>>: elem, next, and the strong count of the Rc.
PSlots == 1..MaxShared
Handles == 1..MaxLists

PsHeap == [elem |-> ps_elem, next |-> ps_next, rc |-> ps_rc]

PsEmptyHeap ==
    [elem |-> [n \in PSlots |-> NULL],
     next |-> [n \in PSlots |-> NULL],
     rc |-> [n \in PSlots |-> 0]]

PsHasFree(h) == \E n \in PSlots : h.rc[n] = 0

PsFreshSlot(h) ==
    CHOOSE n \in PSlots : h.rc[n] = 0 /\ \A m \in PSlots : m < n => h.rc[m] # 0

\* Option<Rc<Node>>::clone: one more owner of the node, if there is one.
PsClone(h, l) == IF l = NULL THEN h ELSE [h EXCEPT !.rc[l] = @ + 1]

\* Outcome of a method that builds a List: the heap and the new List.head.
PsList(h, l) == [h |-> h, head |-> l]

\* List::prepend on the list whose head is l.
ps_prepend(h, l, v) ==
    LET n == PsFreshSlot(h)
        h1 == PsClone(h, l)
    IN PsList([h1 EXCEPT !.elem[n] = v, !.next[n] = l, !.rc[n] = 1], n)

\* Mutant: tail() clones self.head itself.
ps_tail_same(h, l) == PsList(PsClone(h, l), l)

\* List::tail
ps_tail(h, l) ==
    IF l = NULL THEN PsList(h, NULL)
    ELSE PsList(PsClone(h, h.next[l]), h.next[l])

\* List::head
ps_head_ref(h, l) == IF l = NULL THEN None ELSE Some(h.elem[l])
\* Mutant: the destructor frees every node down the chain, shared or not.
RECURSIVE ps_drop_through(_, _)
ps_drop_through(h, l) ==
    IF l = NULL \/ h.rc[l] = 0 THEN h
    ELSE ps_drop_through([h EXCEPT !.rc[l] = 0, !.elem[l] = NULL, !.next[l] = NULL],
                         h.next[l])

\* Drop for List: the head is taken and, as long as the node in hand has no
\* other owner, it is unwrapped, its next is taken and it is freed; the first
\* node with another owner only loses this owner.
RECURSIVE ps_drop(_, _)
ps_drop(h, l) ==
    IF l = NULL THEN h
    ELSE IF h.rc[l] = 1
         THEN ps_drop([h EXCEPT !.rc[l] = 0, !.elem[l] = NULL, !.next[l] = NULL],
                      h.next[l])
         ELSE [h EXCEPT !.rc[l] = @ - 1]

\* ------------------------------------------------- generic_and_iterators.rs

\* Nodes are Box<Node<T>>: a slot is in use from push to pop.
GSlots == 1..MaxStack

GsHeap == [head |-> gs_head, elem |-> gs_elem, next |-> gs_next, used |-> gs_used]

\* List::new
GsEmptyHeap ==
    [head |-> NULL,
     elem |-> [n \in GSlots |-> NULL],
     next |-> [n \in GSlots |-> NULL],
     used |-> [n \in GSlots |-> FALSE]]

GsHasFree(h) == \E n \in GSlots : ~h.used[n]

GsFreshSlot(h) ==
    CHOOSE n \in GSlots : ~h.used[n] /\ \A m \in GSlots : m < n => h.used[m]

\* Drop of a Box<Node> whose next has been moved out.
GsFree(h, n) == [h EXCEPT !.used[n] = FALSE, !.elem[n] = NULL, !.next[n] = NULL]

\* List::push
gs_push(h, v) ==
    LET n == GsFreshSlot(h)
    IN [h EXCEPT !.used[n] = TRUE, !.elem[n] = v, !.next[n] = h.head, !.head = n]

\* List::pop
gs_pop(h) ==
    IF h.head = NULL THEN [h |-> h, ret |-> None]
    ELSE LET node == h.head
         IN [h |-> GsFree([h EXCEPT !.head = h.next[node]], node),
             ret |-> Some(h.elem[node])]

\* Drop for List: the chain is taken off head and freed node by node.
RECURSIVE gs_free_chain(_, _)
gs_free_chain(h, cur_link) ==
    IF cur_link = NULL THEN h
    ELSE gs_free_chain(GsFree(h, cur_link), h.next[cur_link])

gs_drop(h) == gs_free_chain([h EXCEPT !.head = NULL], h.head)

\* List::iter, List::iter_mut: the iterator starts at the head node.
gs_iter(h) == h.head
gs_iter_mut(h) == h.head

\* Outcome of a next(): the iterator's next field, the item, and its node.
Item(c, r, n) == [cur |-> c, ret |-> r, node |-> n]

\* Mutant: next() hands out the elem and stays on the node.
Iter_next_stuck(h, cur) ==
    IF cur = NULL THEN Item(NULL, None, NULL) ELSE Item(cur, Some(h.elem[cur]), cur)

\* Iterator for Iter
Iter_next(h, cur) ==
    IF cur = NULL THEN Item(NULL, None, NULL)
    ELSE Item(h.next[cur], Some(h.elem[cur]), cur)

\* Iterator for IterMut: self.next is taken before it is set again.
IterMut_next(h, cur) ==
    LET node == cur
        taken == NULL
    IN IF node = NULL THEN Item(taken, None, NULL)
       ELSE Item(h.next[node], Some(h.elem[node]), node)

\* Iterator for IntoIter: pop on the list it wraps.
IntoIter_next(h) == gs_pop(h)

\* What repeated pop returns until it returns None.
RECURSIVE GsPops(_)
GsPops(h) ==
    LET r == gs_pop(h)
    IN IF r.ret = None THEN << >> ELSE r.ret \o GsPops(r.h)

NoLiveView == mview = NULL /\ \A n \in Slots : views[n] = 0

\* The end through which the live RefMut was taken.
MutEnd == IF lastOp \in {"peek_back_mut", "write_back"} THEN "back" ELSE "front"

\* Writing through a RefMut<T> that was mapped to the elem of node n.
WriteElem(h, n, v) == [h EXCEPT !.elem[n] = v]

\* Drop of a Ref / RefMut: the borrow it took is given back.
DropRef(h, n) == [h EXCEPT !.borrow[n] = @ - 1]
DropRefMut(h, n) == [h EXCEPT !.borrow[n] = 0]

Init ==
    /\ head = NULL
    /\ tail = NULL
    /\ elem = EmptyHeap.elem
    /\ next = EmptyHeap.next
    /\ prev = EmptyHeap.prev
    /\ rc = EmptyHeap.rc
    /\ borrow = EmptyHeap.borrow
    /\ views = [n \in Slots |-> 0]
    /\ mview = NULL
    /\ pc = "live"
    /\ lastOp = "new"
    /\ ret = None
    /\ pending = [front |-> << >>, back |-> << >>]
    /\ expect = None
    /\ rule = "empty"
    /\ nleaks = 0
    /\ npops = 0
    /\ ps_live = {}
    /\ ps_head = [k \in Handles |-> NULL]
    /\ ps_elem = PsEmptyHeap.elem
    /\ ps_next = PsEmptyHeap.next
    /\ ps_rc = PsEmptyHeap.rc
    /\ ps_op = [op |-> "none", src |-> NULL, dst |-> NULL, val |-> NULL]
    /\ ps_ret = None
    /\ gs_head = NULL
    /\ gs_elem = GsEmptyHeap.elem
    /\ gs_next = GsEmptyHeap.next
    /\ gs_used = GsEmptyHeap.used
    /\ gs_mode = "list"
    /\ gs_cur = NULL
    /\ gs_last = NULL
    /\ gs_op = "new"
    /\ gs_ret = None
    /\ gs_snap = << >>
    /\ gs_calls = 0
    /\ gs_yield = << >>

\* A call of a &mut self method that changes the linkage: no view is live.
Structural(kind, r, pend, exp) ==
    /\ pc = "live"
    /\ NoLiveView
    /\ SetHeap(r.h)
    /\ ret' = r.ret
    /\ pc' = IF r.panic THEN "panicked" ELSE "live"
    /\ lastOp' = kind
    /\ pending' = IF r.panic THEN pending ELSE pend
    /\ expect' = exp
    /\ rule' = Rule(pending, IF kind \in {"push_back", "pop_back"} THEN "back" ELSE "front")
    /\ UNCHANGED << views, mview, nleaks, npops >>
    /\ UNCHANGED << psVars, gsVars >>

PushFront(v) ==
    /\ HasFree(Heap)
    /\ Structural("push_front", push_front(Heap, v), PendPush(pending, v, "front"), None)

PushBack(v) ==
    /\ HasFree(Heap)
    /\ Structural("push_back", push_back(Heap, v), PendPush(pending, v, "back"), None)

PopFront ==
    Structural("pop_front", pop_front(Heap), PendPop(pending, "front"),
               Expected(pending, "front"))

PopBack ==
    Structural("pop_back", pop_back(Heap), PendPop(pending, "back"),
               Expected(pending, "back"))

\* A call of a &self peek: other Ref views may be live, a RefMut may not.
Shared(kind, r, e) ==
    /\ pc = "live"
    /\ mview = NULL
    /\ r.node # NULL => borrow[r.node] < MaxViews
    /\ SetHeap(r.h)
    /\ ret' = r.ret
    /\ pc' = IF r.panic THEN "panicked" ELSE "live"
    /\ lastOp' = kind
    /\ views' = IF r.node # NULL THEN [views EXCEPT ![r.node] = @ + 1] ELSE views
    /\ expect' = Expected(pending, e)
    /\ rule' = Rule(pending, e)
    /\ UNCHANGED << mview, pending, nleaks, npops >>
    /\ UNCHANGED << psVars, gsVars >>

PeekFront == Shared("peek_front", peek_front(Heap), "front")

PeekBack == Shared("peek_back", peek_back(Heap), "back")

\* A call of a &mut self peek: no view is live.
Exclusive(kind, r, e) ==
    /\ pc = "live"
    /\ NoLiveView
    /\ SetHeap(r.h)
    /\ ret' = r.ret
    /\ pc' = IF r.panic THEN "panicked" ELSE "live"
    /\ lastOp' = kind
    /\ mview' = r.node
    /\ expect' = Expected(pending, e)
    /\ rule' = Rule(pending, e)
    /\ UNCHANGED << views, pending, nleaks, npops >>
    /\ UNCHANGED << psVars, gsVars >>

PeekFrontMut == Exclusive("peek_front_mut", peek_front_mut(Heap), "front")

PeekBackMut == Exclusive("peek_back_mut", peek_back_mut(Heap), "back")

\* `*view = v` through the live RefMut.
Write(v) ==
    /\ pc = "live"
    /\ mview # NULL
    /\ SetHeap(WriteElem(Heap, mview, v))
    /\ lastOp' = IF MutEnd = "back" THEN "write_back" ELSE "write_front"
    /\ ret' = Some(v)
    /\ pending' = PendWrite(pending, v, MutEnd)
    /\ UNCHANGED << expect, rule, views, mview, pc, nleaks, npops >>
    /\ UNCHANGED << psVars, gsVars >>

\* A live view goes out of scope (also while a panic unwinds).
ReleaseRef(n) ==
    /\ pc \in {"live", "panicked"}
    /\ views[n] > 0
    /\ SetHeap(DropRef(Heap, n))
    /\ views' = [views EXCEPT ![n] = @ - 1]
    /\ lastOp' = "release"
    /\ UNCHANGED << mview, pc, ret, pending, expect, rule, nleaks, npops >>
    /\ UNCHANGED << psVars, gsVars >>

ReleaseRefMut ==
    /\ pc \in {"live", "panicked"}
    /\ mview # NULL
    /\ SetHeap(DropRefMut(Heap, mview))
    /\ mview' = NULL
    /\ lastOp' = "release_mut"
    /\ UNCHANGED << views, pc, ret, pending, expect, rule, nleaks, npops >>
    /\ UNCHANGED << psVars, gsVars >>

\* std::mem::forget of a live view: it stops borrowing the list and its
\* destructor never runs, so the RefCell keeps the borrow.
LeakRef(n) ==
    /\ pc = "live"
    /\ nleaks < MaxLeaks
    /\ nleaks' = nleaks + 1
    /\ views[n] > 0
    /\ views' = [views EXCEPT ![n] = @ - 1]
    /\ lastOp' = "leak"
    /\ UNCHANGED << heapVars, mview, pc, ret, pending, expect, rule, npops >>
    /\ UNCHANGED << psVars, gsVars >>

LeakRefMut ==
    /\ pc = "live"
    /\ nleaks < MaxLeaks
    /\ nleaks' = nleaks + 1
    /\ mview # NULL
    /\ mview' = NULL
    /\ lastOp' = "leak_mut"
    /\ UNCHANGED << heapVars, views, pc, ret, pending, expect, rule, npops >>
    /\ UNCHANGED << psVars, gsVars >>

\* The list goes out of scope, in normal flow or while a panic unwinds.
Drop ==
    /\ pc \in {"live", "panicked"}
    /\ NoLiveView
    /\ LET r == drop_list(Heap, pc = "panicked")
       IN /\ SetHeap(r.h)
          /\ pc' = IF r.panic THEN "drop_panicked" ELSE "dropped"
          /\ npops' = r.pops
    /\ lastOp' = "drop"
    /\ ret' = None
    /\ UNCHANGED << views, mview, pending, expect, rule, nleaks >>
    /\ UNCHANGED << psVars, gsVars >>

\* Pushes, pops and the destructor alone: every sequence of push_front,
\* push_back, pop_front and pop_back, with lists of up to MaxNodes nodes.
NextOps ==
    \/ \E v \in Values : PushFront(v)
    \/ \E v \in Values : PushBack(v)
    \/ PopFront
    \/ PopBack
    \/ Drop

SpecOps == Init /\ [][NextOps]_vars

\* The same with views taken, written through, released and leaked, on
\* lists of up to MaxViewLen nodes.
Short == Cardinality({n \in Slots : rc[n] > 0}) < MaxViewLen

Next ==
    \/ \E v \in Values : Short /\ PushFront(v)
    \/ \E v \in Values : Short /\ PushBack(v)
    \/ PopFront
    \/ PopBack
    \/ PeekFront
    \/ PeekBack
    \/ PeekFrontMut
    \/ PeekBackMut
    \/ \E v \in Values : Write(v)
    \/ \E n \in Slots : ReleaseRef(n)
    \/ ReleaseRefMut
    \/ \E n \in Slots : LeakRef(n)
    \/ LeakRefMut
    \/ Drop

Spec == Init /\ [][Next]_vars
\* ---------------------------------------- persistent_stack.rs, the program

SetPsHeap(h) ==
    /\ ps_elem' = h.elem
    /\ ps_next' = h.next
    /\ ps_rc' = h.rc

PsFreeHandle == CHOOSE k \in Handles : k \notin ps_live /\ \A j \in Handles : j < k => j \in ps_live

PsCall(o, l, k, v) == [op |-> o, src |-> l, dst |-> k, val |-> v]

\* `let a = List::new();`: the list every other one is derived from.
PsNew ==
    /\ ps_live = {}
    /\ LET k == PsFreeHandle
       IN /\ ps_live' = ps_live \cup {k}
          /\ ps_head' = [ps_head EXCEPT ![k] = NULL]
          /\ ps_op' = PsCall("new", NULL, k, NULL)
    /\ ps_ret' = None
    /\ UNCHANGED << ps_elem, ps_next, ps_rc, dequeVars, gsVars >>

\* A method of list l whose result is bound to a new List value.
PsBuild(o, l, v, r) ==
    /\ l \in ps_live
    /\ ps_live # Handles
    /\ LET k == PsFreeHandle
       IN /\ ps_live' = ps_live \cup {k}
          /\ ps_head' = [ps_head EXCEPT ![k] = r.head]
          /\ ps_op' = PsCall(o, l, k, v)
    /\ SetPsHeap(r.h)
    /\ ps_ret' = None
    /\ UNCHANGED << dequeVars, gsVars >>

\* `let b = a.prepend(v);`
PsPrepend(l, v) ==
    /\ PsHasFree(PsHeap)
    /\ PsBuild("prepend", l, v, ps_prepend(PsHeap, ps_head[l], v))

\* `let b = a.tail();`
PsTail(l) == PsBuild("tail", l, NULL, ps_tail(PsHeap, ps_head[l]))

\* `a.head()`
PsHead(l) ==
    /\ l \in ps_live
    /\ ps_ret' = ps_head_ref(PsHeap, ps_head[l])
    /\ ps_op' = PsCall("head", NULL, NULL, NULL)
    /\ UNCHANGED << ps_live, ps_head, ps_elem, ps_next, ps_rc, dequeVars, gsVars >>

\* List l goes out of scope; the ghost records how many nodes that freed.
PsDrop(l) ==
    /\ l \in ps_live
    /\ LET h == ps_drop(PsHeap, ps_head[l])
           freed == {n \in PSlots : ps_rc[n] > 0 /\ h.rc[n] = 0}
       IN /\ SetPsHeap(h)
          /\ ps_op' = PsCall("drop", l, NULL, Cardinality(freed))
    /\ ps_live' = ps_live \ {l}
    /\ ps_head' = [ps_head EXCEPT ![l] = NULL]
    /\ ps_ret' = None
    /\ UNCHANGED << dequeVars, gsVars >>

NextPersist ==
    \/ PsNew
    \/ \E l \in Handles, v \in Values : PsPrepend(l, v)
    \/ \E l \in Handles : PsTail(l)
    \/ \E l \in Handles : PsHead(l)
    \/ \E l \in Handles : PsDrop(l)

SpecPersist == Init /\ [][NextPersist]_vars

\* ----------------------------------- generic_and_iterators.rs, the program

SetGsHeap(h) ==
    /\ gs_head' = h.head
    /\ gs_elem' = h.elem
    /\ gs_next' = h.next
    /\ gs_used' = h.used

iterVars == << gs_mode, gs_cur, gs_last, gs_snap, gs_calls, gs_yield >>

Iterating == gs_mode \in {"iter", "iter_mut", "into_iter"}

\* `list.push(v)`, with no iterator borrowing the list.
GsPush(v) ==
    /\ gs_mode = "list"
    /\ GsHasFree(GsHeap)
    /\ SetGsHeap(gs_push(GsHeap, v))
    /\ gs_op' = "push"
    /\ gs_ret' = None
    /\ UNCHANGED << iterVars, dequeVars, psVars >>

\* `list.pop()`
GsPop ==
    /\ gs_mode = "list"
    /\ LET r == gs_pop(GsHeap)
       IN SetGsHeap(r.h) /\ gs_ret' = r.ret
    /\ gs_op' = "pop"
    /\ UNCHANGED << iterVars, dequeVars, psVars >>

\* An iterator is made from the list: it borrows it (iter, iter_mut) or
\* owns it (into_iter).
GsStart(mode, cur) ==
    /\ gs_mode = "list"
    /\ gs_mode' = mode
    /\ gs_cur' = cur
    /\ gs_last' = NULL
    /\ gs_snap' = GsPops(GsHeap)
    /\ gs_calls' = 0
    /\ gs_yield' = << >>
    /\ gs_op' = mode
    /\ gs_ret' = None
    /\ UNCHANGED << gs_head, gs_elem, gs_next, gs_used, dequeVars, psVars >>

GsIter == GsStart("iter", gs_iter(GsHeap))

GsIterMut == GsStart("iter_mut", gs_iter_mut(GsHeap))

GsIntoIter == GsStart("into_iter", NULL)

\* `iter.next()`
GsNext ==
    /\ Iterating
    /\ gs_calls < Len(gs_snap) + MaxExtra
    /\ LET r == IF gs_mode = "iter" THEN Iter_next(GsHeap, gs_cur)
                ELSE IterMut_next(GsHeap, gs_cur)
           p == IntoIter_next(GsHeap)
       IN IF gs_mode = "into_iter"
          THEN /\ SetGsHeap(p.h)
               /\ gs_ret' = p.ret
               /\ gs_yield' = gs_yield \o p.ret
               /\ UNCHANGED << gs_cur, gs_last >>
          ELSE /\ gs_cur' = r.cur
               /\ gs_ret' = r.ret
               /\ gs_yield' = gs_yield \o r.ret
               /\ gs_last' = IF gs_mode = "iter_mut" THEN r.node ELSE NULL
               /\ UNCHANGED << gs_head, gs_elem, gs_next, gs_used >>
    /\ gs_calls' = gs_calls + 1
    /\ gs_op' = "next"
    /\ UNCHANGED << gs_mode, gs_snap, dequeVars, psVars >>

\* `*item = v` through the &mut T that IterMut yielded last.
GsWrite(v) ==
    /\ gs_mode = "iter_mut"
    /\ gs_last # NULL
    /\ gs_elem' = [gs_elem EXCEPT ![gs_last] = v]
    /\ gs_op' = "write"
    /\ UNCHANGED << gs_head, gs_next, gs_used, gs_ret, iterVars, dequeVars, psVars >>

\* The iterator goes out of scope; an IntoIter drops the list it owns.
GsEnd ==
    /\ Iterating
    /\ IF gs_mode = "into_iter"
       THEN SetGsHeap(gs_drop(GsHeap)) /\ gs_mode' = "gone"
       ELSE UNCHANGED << gs_head, gs_elem, gs_next, gs_used >> /\ gs_mode' = "list"
    /\ gs_cur' = NULL
    /\ gs_last' = NULL
    /\ gs_snap' = << >>
    /\ gs_calls' = 0
    /\ gs_yield' = << >>
    /\ gs_op' = "end"
    /\ gs_ret' = None
    /\ UNCHANGED << dequeVars, psVars >>

\* The list goes out of scope.
GsDrop ==
    /\ gs_mode = "list"
    /\ SetGsHeap(gs_drop(GsHeap))
    /\ gs_mode' = "gone"
    /\ gs_op' = "drop"
    /\ gs_ret' = None
    /\ UNCHANGED << gs_cur, gs_last, gs_snap, gs_calls, gs_yield, dequeVars, psVars >>

\* `let mut list = List::new();` once the former list is gone.
GsNew ==
    /\ gs_mode = "gone"
    /\ SetGsHeap(GsEmptyHeap)
    /\ gs_mode' = "list"
    /\ gs_op' = "new"
    /\ gs_ret' = None
    /\ UNCHANGED << gs_cur, gs_last, gs_snap, gs_calls, gs_yield, dequeVars, psVars >>

NextStack ==
    \/ \E v \in Values : GsPush(v)
    \/ GsPop
    \/ GsIter
    \/ GsIterMut
    \/ GsIntoIter
    \/ GsNext
    \/ \E v \in Values : GsWrite(v)
    \/ GsEnd
    \/ GsDrop
    \/ GsNew

SpecStack == Init /\ [][NextStack]_vars

TypeOK ==
    /\ head \in Links
    /\ tail \in Links
    /\ \A n \in Slots : /\ elem[n] \in Values \cup {NULL}
                        /\ next[n] \in Links
                        /\ prev[n] \in Links
                        /\ rc[n] \in 0..3
                        /\ borrow[n] \in -1..MaxViews
                        /\ views[n] \in 0..MaxViews
    /\ mview \in Links
    /\ Count(pending) <= MaxNodes

\* ------------------------------------------------------------ properties

Pops == {"pop_front", "pop_back"}

\* The nodes met by following the edge f from node n, at most k of them.
RECURSIVE Walk(_, _, _)
Walk(f, n, k) ==
    IF n = NULL \/ k = 0 THEN << >> ELSE << n >> \o Walk(f, f[n], k - 1)

FromHead == Walk(next, head, MaxNodes + 1)
FromTail == Walk(prev, tail, MaxNodes + 1)

Reverse(q) == [i \in 1..Len(q) |-> q[Len(q) + 1 - i]]

\* C1: LIFO per end.  A pop at an end at which values were pushed and not
\* yet popped returns the one pushed there most recently; a pop when every
\* pushed value has been popped returns None.
C1_LifoPerEnd ==
    (lastOp \in Pops /\ rule \in {"lifo", "empty"}) =>
        /\ pc = "live"
        /\ ret = expect
        /\ rule = "empty" => ret = None

C1_Witness ==
    /\ lastOp = "pop_front"
    /\ rule = "lifo"
    /\ ret = Some(2)
    /\ pending.front = << 1, 1 >>
    /\ pending.back = << >>

\* C2: FIFO across ends.  A pop at an end at which nothing is pending
\* returns the oldest value pushed at the other end.
C2_FifoAcrossEnds ==
    (lastOp \in Pops /\ rule = "fifo") =>
        /\ pc = "live"
        /\ ret = expect
        /\ ret # None

C2_Witness ==
    /\ lastOp = "pop_back"
    /\ rule = "fifo"
    /\ ret = Some(1)
    /\ pending.front = << 2, 1 >>
    /\ pending.back = << >>

\* C3: a pop on an empty deque returns None, does not panic, and leaves the
\* deque empty: head and tail absent and no node allocated.
C3_PopEmpty ==
    (lastOp \in Pops /\ rule = "empty") =>
        /\ pc = "live"
        /\ ret = None
        /\ head = NULL
        /\ tail = NULL
        /\ \A n \in Slots : rc[n] = 0

C3_Witness ==
    /\ lastOp = "pop_back"
    /\ rule = "empty"
    /\ ret = None
    /\ pc = "live"

\* C4: the walk along next from head and the walk along prev from tail meet
\* the same nodes in opposite orders, and both end after as many steps as
\* there are elements (pushes minus successful pops).
C4_WalksReverse ==
    pc = "live" =>
        /\ FromHead = Reverse(FromTail)
        /\ Len(FromHead) = Count(pending)
        /\ Len(FromTail) = Count(pending)

C4_Witness ==
    /\ lastOp = "pop_back"
    /\ Len(FromHead) = 2
    /\ pending.front # << >>
    /\ pending.back # << >>

\* C5: head is absent exactly when tail is absent exactly when the deque
\* holds no element, and head and tail are the same node exactly when it
\* holds one element.
C5_TwoStates ==
    pc = "live" =>
        /\ head = NULL <=> tail = NULL
        /\ head = NULL <=> Count(pending) = 0
        /\ (head # NULL /\ head = tail) <=> Count(pending) = 1

\* A deque brought back to one element by a pop at each end.
C5_Witness ==
    /\ lastOp = "pop_front"
    /\ rule = "fifo"
    /\ head # NULL
    /\ head = tail
    /\ Count(pending) = 1

Peeks == {"peek_front", "peek_back", "peek_front_mut", "peek_back_mut"}
MutPeeks == {"peek_front_mut", "peek_back_mut"}
FrontOps == {"peek_front", "peek_front_mut", "write_front"}

\* The heap after the step.
HeapNext ==
    [head |-> head', tail |-> tail', elem |-> elem', next |-> next',
     prev |-> prev', rc |-> rc', borrow |-> borrow']

\* C6: a peek_front_mut / peek_back_mut of a node whose RefCell is borrowed,
\* shared or exclusive, panics, grants no view and leaves the heap as it was.
C6_ExclusiveFailsFast ==
    [][(/\ lastOp' \in MutPeeks
        /\ LET n == IF lastOp' \in FrontOps THEN head ELSE tail
           IN n # NULL /\ borrow[n] # 0)
       => /\ pc' = "panicked"
          /\ mview' = NULL
          /\ UNCHANGED heapVars]_vars

\* peek_back_mut refused on a one-element deque whose node is still borrowed.
C6_Witness ==
    /\ lastOp = "peek_back_mut"
    /\ pc = "panicked"
    /\ head # NULL
    /\ head = tail
    /\ borrow[head] # 0

\* C7: after a write of v through the view of peek_front_mut and the release
\* of that view, peek_front reports v and pop_front returns v (likewise at
\* the back), and the write changed no other elem and no link.
C7_WriteSeen ==
    [][lastOp' \in {"write_front", "write_back"} =>
        LET n == mview
            v == ret'[1]
            h == DropRefMut(HeapNext, n)
            pk == IF lastOp' \in FrontOps THEN peek_front(h) ELSE peek_back(h)
            pp == IF lastOp' \in FrontOps THEN pop_front(h) ELSE pop_back(h)
        IN /\ ~pk.panic
           /\ pk.ret = Some(v)
           /\ ~pp.panic => pp.ret = Some(v)
           /\ \A m \in Slots \ {n} : elem'[m] = elem[m]
           /\ UNCHANGED << head, tail, next, prev, rc >>]_vars

\* 2 written through peek_back_mut over the 1 at the back of a two-element
\* deque whose front holds 1.
C7_Witness ==
    /\ lastOp = "write_back"
    /\ ret = Some(2)
    /\ pending = [front |-> << >>, back |-> << 1, 2 >>]
    /\ head # tail
    /\ elem[head] = 1
    /\ elem[tail] = 2

\* C8: a peek on an empty deque reports None; a peek that is granted reports
\* what pop at that end returns from the same heap; a peek changes no elem and
\* no link, the release of its view gives the heap back as it was, and a
\* release changes no elem and no link.
C8_PeekResults ==
    [][/\ lastOp' \in Peeks =>
            LET front == lastOp' \in FrontOps
                n == IF front THEN head ELSE tail
                pp == IF front THEN pop_front(Heap) ELSE pop_back(Heap)
                back == IF lastOp' \in MutPeeks THEN DropRefMut(HeapNext, n)
                        ELSE DropRef(HeapNext, n)
            IN /\ Count(pending) = 0 => (pc' = "live" /\ ret' = None)
               /\ (pc' = "live" /\ ~pp.panic) => ret' = pp.ret
               /\ (pc' = "live" /\ n # NULL) => (ret' # None /\ back = Heap)
               /\ UNCHANGED << head, tail, elem, next, prev, rc >>
       /\ lastOp' \in {"release", "release_mut"} =>
            UNCHANGED << head, tail, elem, next, prev, rc >>]_vars

\* peek_back reporting the 1 at the back while the front holds 2.
C8_Witness ==
    /\ lastOp = "peek_back"
    /\ pc = "live"
    /\ ret = Some(1)
    /\ head # NULL
    /\ elem[head] = 2
    /\ views[tail] = 1

\* C9: an operation that panics leaves head, tail and every next and prev
\* edge as they were before the call.
C9_NoPartialFailure ==
    [][(pc = "live" /\ pc' = "panicked") =>
        UNCHANGED << head, tail, next, prev >>]_vars

\* C10: the destructor of a deque of n elements ends without a panic after
\* n pops that returned a value and one that returned None, with head and
\* tail absent and every node freed.
C10_DropFreesAll ==
    lastOp = "drop" =>
        /\ pc = "dropped"
        /\ npops = Count(pending)
        /\ head = NULL
        /\ tail = NULL
        /\ \A n \in Slots : rc[n] = 0

C10_Witness ==
    /\ lastOp = "drop"
    /\ pc = "dropped"
    /\ npops = MaxNodes
    /\ pending.front # << >>
    /\ pending.back # << >>

\* The edges that reference node n: anchors, and next / prev fields of nodes.
AnchorsTo(n) == (IF head = n THEN 1 ELSE 0) + (IF tail = n THEN 1 ELSE 0)
NextTo(n) == Cardinality({m \in Slots : next[m] = n})
PrevTo(n) == Cardinality({m \in Slots : prev[m] = n})
Owners(n) == AnchorsTo(n) + NextTo(n) + PrevTo(n)

\* C11: between operations every node linked into the deque has a strong
\* count of exactly two, and its two owners are the next edge of its
\* predecessor (head for the first node) and the prev edge of its successor
\* (tail for the last node); the only node of a one-element deque is owned by
\* head and tail.
C11_OwnerCountTwo ==
    pc = "live" =>
        LET w == FromHead
        IN /\ Len(w) = Count(pending)
           /\ \A i \in 1..Len(w) :
                /\ rc[w[i]] = 2
                /\ Owners(w[i]) = 2
                /\ IF i = 1 THEN head = w[i] ELSE next[w[i - 1]] = w[i]
                /\ IF i = Len(w) THEN tail = w[i] ELSE prev[w[i + 1]] = w[i]

\* Three nodes built from both ends: the middle one is owned by two
\* neighbour edges, the outer ones by an anchor and a neighbour edge.
C11_Witness ==
    /\ pc = "live"
    /\ lastOp = "push_back"
    /\ Len(FromHead) = 3
    /\ pending.front # << >>
    /\ AnchorsTo(FromHead[2]) = 0
    /\ rc[FromHead[2]] = 2

\* C12: next and prev are mutual (A.next = B exactly when B.prev = A), the
\* head node has no prev edge and the tail node has no next edge.
C12_MutualEdges ==
    pc = "live" =>
        /\ \A a, b \in Slots : next[a] = b <=> prev[b] = a
        /\ head # NULL => prev[head] = NULL
        /\ tail # NULL => next[tail] = NULL

\* Two nodes left after a pop at the front of three.
C12_Witness ==
    /\ pc = "live"
    /\ lastOp = "pop_front"
    /\ ret # None
    /\ head # NULL
    /\ next[head] = tail
    /\ prev[tail] = head
    /\ head # tail

\* ------------------------------------------------ persistent_stack.rs
\* The abstract sequence of the deque, front first: the values pushed at the
\* front, newest first, then those pushed at the back, oldest first.
AbsSeq == Reverse(pending.front) \o pending.back

\* The elems read by following next from head.
ElemsFromHead == [i \in 1..Len(FromHead) |-> elem[FromHead[i]]]

Pushes == {"push_front", "push_back"}

\* C15: the deque refines a sequence.  push_front prepends and push_back
\* appends the pushed value, pop_front removes and returns the first element
\* and pop_back the last (None, and no change, on the empty sequence), and
\* after every operation the elems read along next from head are the
\* sequence.
C15_RefinesSequence ==
    [][lastOp' \in Pushes \cup Pops =>
        /\ pc' = "live"
        /\ lastOp' = "push_front" =>
             \E v \in Values : AbsSeq' = << v >> \o AbsSeq
        /\ lastOp' = "push_back" =>
             \E v \in Values : AbsSeq' = Append(AbsSeq, v)
        /\ lastOp' = "pop_front" =>
             IF AbsSeq = << >> THEN ret' = None /\ AbsSeq' = << >>
             ELSE ret' = Some(Head(AbsSeq)) /\ AbsSeq' = Tail(AbsSeq)
        /\ lastOp' = "pop_back" =>
             IF AbsSeq = << >> THEN ret' = None /\ AbsSeq' = << >>
             ELSE ret' = Some(Last(AbsSeq)) /\ AbsSeq' = ButLast(AbsSeq)
        /\ ElemsFromHead' = AbsSeq'
        /\ ElemsFromHead = AbsSeq]_vars

\* A push at the back of a deque whose other elements came in at both ends.
C15_Witness ==
    /\ lastOp = "push_back"
    /\ pc = "live"
    /\ AbsSeq = << 2, 1, 2 >>
    /\ ElemsFromHead = << 2, 1, 2 >>
    /\ pending.front = << 2 >>
\* C16: with no view outstanding, every pop of a node reaches
\* Rc::try_unwrap with the node's strong count at exactly one, so the unwrap
\* never panics: the node is freed and its elem returned.
C16_ReclaimSucceeds ==
    [][LET n == IF lastOp' = "pop_front" THEN head ELSE tail
           u == IF lastOp' = "pop_front" THEN unlink_front(Heap) ELSE unlink_back(Heap)
       IN (lastOp' \in Pops /\ n # NULL) =>
            /\ ~u.panic
            /\ u.node = n
            /\ u.h.rc[n] = 1
            /\ ~Reclaim(u.h, n).panic
            /\ pc' = "live"
            /\ rc'[n] = 0
            /\ ret' = Some(elem[n])]_vars

\* The last node of a deque, pushed at the back and popped there.
C16_Witness ==
    /\ lastOp = "pop_back"
    /\ pc = "live"
    /\ ret # None
    /\ npops = 0
    /\ Count(pending) = 0
    /\ head = NULL
    /\ \A n \in Slots : rc[n] = 0
    /\ rule = "lifo"
\* The nodes reachable from the anchors.
Reachable == {FromHead[i] : i \in 1..Len(FromHead)} \cup {FromTail[i] : i \in 1..Len(FromTail)}

\* C17: after every operation of the deque, one that panicked included, a
\* node has a positive strong count exactly when it is reachable from head or
\* tail: no reachable node is freed and no unreachable node is kept
\* allocated.
C17_NoLeakNoDangle ==
    pc \in {"live", "panicked"} =>
        \A n \in Slots : rc[n] > 0 <=> n \in Reachable

\* One node linked and one freed by a pop that crossed from the other end.
C17_Witness ==
    /\ lastOp = "pop_front"
    /\ pc = "live"
    /\ rule = "fifo"
    /\ ret # None
    /\ Cardinality(Reachable) = 1
    /\ \E n \in Slots : rc[n] = 0 /\ n < head

\* C18 as stated: a node is referenced by at most one next edge and one prev
\* edge, both of other nodes, and by at most one of head and tail.
C18_AtMostOneAnchor ==
    \A n \in Slots :
        /\ NextTo(n) <= 1
        /\ PrevTo(n) <= 1
        /\ next[n] # n
        /\ prev[n] # n
        /\ AnchorsTo(n) <= 1

\* C18, amended: a node is referenced by at most one next edge and one prev
\* edge, both of other nodes, and by at most two edges in all; head and tail
\* reference the same node exactly when it is the only node of the deque, and
\* no neighbour edge references it then.
C18_OwnerBound ==
    \A n \in Slots :
        /\ NextTo(n) <= 1
        /\ PrevTo(n) <= 1
        /\ next[n] # n
        /\ prev[n] # n
        /\ Owners(n) <= 2
        /\ AnchorsTo(n) = 2 => (NextTo(n) + PrevTo(n) = 0 /\ Reachable = {n})

\* The only node of a deque left by a pop, referenced by both anchors.
C18_Witness ==
    /\ lastOp = "pop_back"
    /\ ret # None
    /\ head # NULL
    /\ AnchorsTo(head) = 2
    /\ Owners(head) = 2
    /\ rc[head] = 2
SharedPeeks == {"peek_front", "peek_back"}

\* C19: a peek_front / peek_back of a node that is not exclusively borrowed
\* is granted, whatever the number of shared views of it; a node under a live
\* exclusive view has no other view; and when the release of a view leaves a
\* node with no borrow, peek_front_mut / peek_back_mut of it is granted.
C19_SharedCoexist ==
    [][/\ lastOp' \in SharedPeeks =>
            LET n == IF lastOp' \in FrontOps THEN head ELSE tail
            IN (n # NULL /\ borrow[n] >= 0) =>
                  /\ pc' = "live"
                  /\ ret' = Some(elem[n])
                  /\ borrow'[n] = borrow[n] + 1
                  /\ views'[n] = views[n] + 1
       /\ \A n \in Slots :
            /\ (mview' = n \/ borrow'[n] = -1) => (views'[n] = 0 /\ borrow'[n] = -1)
            /\ views'[n] <= (IF borrow'[n] > 0 THEN borrow'[n] ELSE 0)
       /\ lastOp' \in {"release", "release_mut"} =>
            \A n \in Slots :
                (borrow[n] # 0 /\ borrow'[n] = 0) =>
                   /\ CanBorrowMut(HeapNext, n)
                   /\ head' = n =>
                        (~peek_front_mut(HeapNext).panic /\ peek_front_mut(HeapNext).node = n)
                   /\ tail' = n =>
                        (~peek_back_mut(HeapNext).panic /\ peek_back_mut(HeapNext).node = n)]_vars

\* Two live shared views of the single node of a one-element deque, the
\* second taken by peek_back.
C19_Witness ==
    /\ lastOp = "peek_back"
    /\ pc = "live"
    /\ head # NULL
    /\ head = tail
    /\ views[head] = 2
    /\ borrow[head] = 2

\* C20: a push or pop called with no view outstanding finds every node
\* unborrowed, is refused none of the exclusive borrows it asks for, and
\* leaves every node unborrowed.
C20_InternalBorrows ==
    [][lastOp' \in Pushes \cup Pops =>
        LET u == IF lastOp' = "pop_front" THEN unlink_front(Heap) ELSE unlink_back(Heap)
            n == IF lastOp' = "pop_front" THEN head ELSE tail
        IN /\ \A m \in Slots : borrow[m] = 0
           /\ (lastOp' \in Pops /\ n # NULL) =>
                (~u.panic /\ \A m \in Slots : u.h.borrow[m] = 0)
           /\ pc' = "live"
           /\ \A m \in Slots : borrow'[m] = 0]_vars

\* A pop at the front of three nodes: the removed node is borrowed while its
\* neighbour is.
C20_Witness ==
    /\ lastOp = "pop_front"
    /\ pc = "live"
    /\ rule = "lifo"
    /\ Len(FromHead) = 2
    /\ pending.front # << >>
    /\ \A m \in Slots : borrow[m] = 0
Allocated(h) == {m \in Slots : h.rc[m] > 0}

\* A pop at the front (or back) of the non-empty heap h frees the node it
\* removes and nothing else: unlinking frees no node, the node reaches
\* Rc::try_unwrap with no next and no prev edge, and its release changes the
\* strong count of no other node.
PopFreesOne(h, front) ==
    LET n == IF front THEN h.head ELSE h.tail
        u == IF front THEN unlink_front(h) ELSE unlink_back(h)
        r == Reclaim(u.h, n)
    IN /\ ~u.panic
       /\ Allocated(u.h) = Allocated(h)
       /\ u.h.next[n] = NULL
       /\ u.h.prev[n] = NULL
       /\ ~r.panic
       /\ Allocated(r.h) = Allocated(h) \ {n}
       /\ \A m \in Slots \ {n} : r.h.rc[m] = u.h.rc[m]

\* Every turn of the destructor's loop on h is such a pop.
RECURSIVE TeardownOk(_, _)
TeardownOk(h, k) ==
    IF h.head = NULL \/ k = 0 THEN h.head = NULL /\ Allocated(h) = {}
    ELSE PopFreesOne(h, TRUE) /\ TeardownOk(pop_front(h).h, k - 1)

\* C21: a node freed by a pop, in normal use or in the destructor's loop, has
\* neither a next nor a prev edge when it is freed, so its release lowers the
\* strong count of no other node; each pop and each turn of the destructor's
\* loop frees exactly one node.
C21_NodeByNode ==
    [][/\ (lastOp' \in Pops /\ (IF lastOp' = "pop_front" THEN head ELSE tail) # NULL) =>
            /\ PopFreesOne(Heap, lastOp' = "pop_front")
            /\ Cardinality(Allocated(Heap) \ Allocated(HeapNext)) = 1
       /\ lastOp' = "drop" =>
            /\ TeardownOk(Heap, MaxNodes + 1)
            /\ npops' = Cardinality(Allocated(Heap))
            /\ Allocated(HeapNext) = {}]_vars

\* The destructor run on three nodes pushed at both ends.
C21_Witness ==
    /\ lastOp = "drop"
    /\ pc = "dropped"
    /\ npops = 3
    /\ Len(pending.front) = 1
    /\ Len(pending.back) = 2
\* The step leaves elem and the edge `same` of every node outside `own`, and
\* the edge `other` of every node outside `own` and `nb`, as they were.
FrameOf(own, nb, same, sameNext, other, otherNext) ==
    /\ \A m \in Slots \ own : elem'[m] = elem[m] /\ sameNext[m] = same[m]
    /\ \A m \in Slots \ (own \cup nb) : otherNext[m] = other[m]

\* C22: push_front (push_back) on a non-empty deque changes only head (tail),
\* the prev (next) edge of the former boundary node and the fields of the new
\* node; pop_front (pop_back) on a deque of two or more elements changes only
\* head (tail), the removed node and the prev (next) edge of its neighbour.
\* The opposite anchor and the elem, next and prev of every other node stay.
C22_Frame ==
    [][/\ (lastOp' = "push_front" /\ head # NULL) =>
            /\ tail' = tail
            /\ rc[head'] = 0
            /\ FrameOf({head'}, {head}, next, next', prev, prev')
       /\ (lastOp' = "push_back" /\ tail # NULL) =>
            /\ head' = head
            /\ rc[tail'] = 0
            /\ FrameOf({tail'}, {tail}, prev, prev', next, next')
       /\ (lastOp' = "pop_front" /\ head # NULL /\ next[head] # NULL) =>
            /\ tail' = tail
            /\ FrameOf({head}, {next[head]}, next, next', prev, prev')
       /\ (lastOp' = "pop_back" /\ tail # NULL /\ prev[tail] # NULL) =>
            /\ head' = head
            /\ FrameOf({tail}, {prev[tail]}, prev, prev', next, next')]_vars

\* A pop at the front of three nodes: the tail anchor, the third node and the
\* next edge of the second are as before.
C22_Witness ==
    /\ lastOp = "pop_front"
    /\ pc = "live"
    /\ ret = Some(2)
    /\ ElemsFromHead = << 1, 2 >>
    /\ \E n \in Slots : rc[n] = 0 /\ n # head /\ n # tail

\* The elems met from the node l along next.
RECURSIVE PsElems(_, _, _)
PsElems(h, l, k) ==
    IF l = NULL \/ k = 0 THEN << >> ELSE << h.elem[l] >> \o PsElems(h, h.next[l], k - 1)

ElemsOf(h, l) == PsElems(h, l, MaxShared + 1)

PsHeapNext == [elem |-> ps_elem', next |-> ps_next', rc |-> ps_rc']

\* C13: for a list L and a value x, L.prepend(x).head() is x and
\* L.prepend(x).tail() has the elements of L in the order of L; tail() of a
\* non-empty list is the list without its first element and tail() of an
\* empty list is empty; prepend and tail leave the elements of L and of every
\* other list in scope as they were.
C13_PersistentStack ==
    [][LET l == ps_op'.src
           k == ps_op'.dst
           was == ElemsOf(PsHeap, ps_head[l])
           now == ElemsOf(PsHeapNext, ps_head'[k])
           t == ps_tail(PsHeapNext, ps_head'[k])
       IN /\ ps_op'.op = "prepend" =>
               /\ ps_head_ref(PsHeapNext, ps_head'[k]) = Some(ps_op'.val)
               /\ now = << ps_op'.val >> \o was
               /\ ElemsOf(t.h, t.head) = was
          /\ ps_op'.op = "tail" =>
               now = IF was = << >> THEN << >> ELSE Tail(was)
          /\ ps_op'.op \in {"prepend", "tail"} =>
               \A j \in ps_live :
                   ElemsOf(PsHeapNext, ps_head'[j]) = ElemsOf(PsHeap, ps_head[j])]_vars

\* tail() of a two-element list made by prepend from a list still in scope:
\* three lists share the last node.
C13_Witness ==
    /\ ps_op.op = "tail"
    /\ ps_op.src \in ps_live
    /\ Len(ElemsOf(PsHeap, ps_head[ps_op.src])) = 2
    /\ Len(ElemsOf(PsHeap, ps_head[ps_op.dst])) = 1
    /\ ps_rc[ps_head[ps_op.dst]] = 3

\* ------------------------------------------- generic_and_iterators.rs

Min(a, b) == IF a < b THEN a ELSE b

\* C14: into_iter, iter and iter_mut yield what repeated pop would have
\* returned from the list they were made from, in that order, and None from
\* then on; the list is as it was while an Iter walks it, and what an
\* IntoIter has yielded and what is left in its list are, together, each
\* element once.
C14_IterationOrder ==
    Iterating =>
        LET k == Min(gs_calls, Len(gs_snap))
        IN /\ gs_yield = SubSeq(gs_snap, 1, k)
           /\ gs_op = "next" =>
                gs_ret = IF gs_calls <= Len(gs_snap) THEN Some(gs_snap[gs_calls])
                         ELSE None
           /\ gs_mode = "iter" => GsPops(GsHeap) = gs_snap
           /\ gs_mode = "into_iter" =>
                /\ gs_yield \o GsPops(GsHeap) = gs_snap
                /\ Cardinality({n \in GSlots : gs_used[n]}) = Len(gs_snap) - k

\* An IterMut run to its end over three elements.
C14_Witness ==
    /\ gs_mode = "iter_mut"
    /\ gs_op = "next"
    /\ gs_ret = None
    /\ gs_yield = << 2, 1, 2 >>
    /\ gs_calls = 4

\* The nodes met from the node l along next.
RECURSIVE PsWalk(_, _, _)
PsWalk(h, l, k) ==
    IF l = NULL \/ k = 0 THEN << >> ELSE << l >> \o PsWalk(h, h.next[l], k - 1)

NodesOf(h, l) ==
    LET w == PsWalk(h, l, MaxShared + 1) IN {w[i] : i \in 1..Len(w)}

\* The nodes of the lists lv, and the references to node n: List.head of a
\* list in scope, Node.next of an allocated node.
PsReachable(h, lv, hd) == UNION {NodesOf(h, hd[j]) : j \in lv}

PsRefs(h, lv, hd, n) ==
    Cardinality({j \in lv : hd[j] = n})
    + Cardinality({m \in PSlots : h.rc[m] > 0 /\ h.next[m] = n})

\* A node is allocated exactly when a list in scope reaches it, and its
\* strong count is the number of references to it.
PsCounted ==
    /\ {n \in PSlots : ps_rc[n] > 0} = PsReachable(PsHeap, ps_live, ps_head)
    /\ \A n \in PSlots : ps_rc[n] = PsRefs(PsHeap, ps_live, ps_head, n)

\* The drop of list l, whose nodes from the head on are w while the other
\* lists in scope reach the nodes kept: the k nodes freed are the first k of
\* w and none of them is kept; the next node of w, if any, is kept and loses
\* one owner; the other lists keep their heads, and every node they reach
\* stays allocated with its element and its link.
PsDropFrees(l, w, kept, freed, k) ==
    LET stop == IF k < Len(w) THEN {w[k + 1]} ELSE {}
    IN /\ k <= Len(w)
       /\ freed = {w[i] : i \in 1..k}
       /\ freed \cap kept = {}
       /\ stop \subseteq kept
       /\ \A n \in PSlots \ freed :
            ps_rc'[n] = (IF n \in stop THEN ps_rc[n] - 1 ELSE ps_rc[n])
       /\ \A j \in ps_live \ {l} : ps_head'[j] = ps_head[j]
       /\ \A n \in kept :
            /\ ps_rc'[n] > 0
            /\ ps_elem'[n] = ps_elem[n]
            /\ ps_next'[n] = ps_next[n]

PsDropStep ==
    ps_op'.op = "drop" =>
        \A w \in {PsWalk(PsHeap, ps_head[ps_op'.src], MaxShared + 1)} :
        \A kept \in {PsReachable(PsHeap, ps_live \ {ps_op'.src}, ps_head)} :
        \A freed \in {{n \in PSlots : ps_rc[n] > 0 /\ ps_rc'[n] = 0}} :
            PsDropFrees(ps_op'.src, w, kept, freed, ps_op'.val)

\* C23: the drop of a list frees, from its head on, the nodes no other list
\* in scope reaches and stops at the first node another list reaches, which
\* loses one owner; the other lists keep their nodes and elements; and at all
\* times a node is allocated exactly when a list in scope reaches it, with a
\* strong count equal to the number of references to it, so none is freed
\* while reachable and none is leaked.
C23_TeardownRespectsSharing == [][PsDropStep]_vars /\ []PsCounted

\* The drop of a two-element list whose second node another list still
\* holds: one node is freed, the other stays with that list.
C23_Witness ==
    /\ ps_op.op = "drop"
    /\ ps_op.val = 1
    /\ \E j \in ps_live :
          /\ Len(ElemsOf(PsHeap, ps_head[j])) = 1
          /\ ps_rc[ps_head[j]] = 1
    /\ \E n \in PSlots : ps_rc[n] = 0

====
